---- MODULE Spec2Model ----
(***************************************************************************)
(* Model of mongo-backups.py: one backup run of main(), the block-device   *)
(* arbitration helpers and the tag list built for the cloud snapshot.      *)
(*                                                                         *)
(* Device names are encoded as integers: "xvd<letter>" is letter*10 and    *)
(* "xvd<letter><digit>" is letter*10+digit, so integer order is the        *)
(* lexicographic order of the names.  0 stands for None.  Codes above      *)
(* 269 are file names under /dev that do not match 'xvd*'.                 *)
(***************************************************************************)
EXTENDS Integers, Sequences, FiniteSets, TLC

\* ---------------------------------------------------------------- bounds
MaxVolumes == 2
MaxDevChanges == 1
MaxSnapChanges == 1
MaxElapsed == 1
MaxToolFailures == 1
MaxPollIterations == 3

\* ------------------------------------------------------- fixed test data
xvda == 10
xvdf == 60
xvdg == 70
xvdh == 80
xvdp1 == 161
xvdz == 260
sda == 900

None == 0
ExitNoVolume == 0
ExitComplete == 0
ExitNoSnapshot == 2
Unbound == -1
Raises == -2
NewVolumeId == 100
NewSnapshotId == 50
ME == "i-me"
OTHER_INSTANCE == "i-other"
mongo_name == "customerA"
VERSION == "0.1"

\* Volume kinds the provider can return for the live-volume filter.
VolEligible == [Attachments |-> <<[InstanceId |-> ME, Device |-> xvdf]>>,
                VolumeType |-> "gp2"]
VolOtherInstance == [Attachments |-> <<[InstanceId |-> OTHER_INSTANCE, Device |-> xvdf]>>,
                     VolumeType |-> "gp2"]
VolOtherDevice == [Attachments |-> <<[InstanceId |-> ME, Device |-> xvdg]>>,
                   VolumeType |-> "gp2"]
VolUnattached == [Attachments |-> <<>>, VolumeType |-> "gp2"]
VolumeKinds == {VolEligible, VolOtherInstance, VolOtherDevice, VolUnattached}

SeqsUpTo(S, n) == UNION {[1..k -> S] : k \in 0..n}

\* Listings of /dev in os.walk order: the top directory, then sub-directories.
\* The physical volume of the volume group, xvdf, is present in each.
DevListings == { <<{xvda, xvdf, sda}>>,
                 <<{xvda, xvdf, xvdg}>>,
                 <<{xvda, xvdf, xvdz}>>,
                 <<{xvda, xvdf}, {xvda}>>,
                 <<{xvda, xvdf, xvdp1}>> }

\* Cloud snapshots carrying the cluster's tags: id and StartTime.
SnapshotSets == { <<>>,
                  <<[SnapshotId |-> 1, StartTime |-> 5]>>,
                  <<[SnapshotId |-> 1, StartTime |-> 5],
                    [SnapshotId |-> 2, StartTime |-> 7]>> }

\* Byte sizes of the logical volumes of the volume group, in units of
\* 2^28 bytes (a quarter GiB).
GiB == 4
LvSizeLists == { <<9>> }

VARIABLES
  pc, exit_code, crash_cause,
  action, volumes, seed_from_last_snapshot, mongo_lock, log_group_name, wait_time,
  lv_sizes,
  dev, snapshots, dev_changes, snap_changes, kernel_pending,
  idx, size, volume_type, source_device,
  new_volume, dest_state, snapshot_id_logged, snapshot_id_checked,
  last_block_device, attach_device, latest_block_device,
  locked, lvsnap, ops, now, date_started, snapshot_tags, tool_failures,
  iterations,
  rsync_output, stats,
  q_pc, q_snapshots, limit, q_result

args == <<action, volumes, seed_from_last_snapshot, mongo_lock, log_group_name,
          wait_time, lv_sizes>>
host == <<dev, dev_changes, kernel_pending>>
cloud == <<snapshots, snap_changes>>
locals == <<idx, size, volume_type, source_device, new_volume,
            snapshot_id_logged, snapshot_id_checked,
            last_block_device, attach_device, latest_block_device,
            date_started, snapshot_tags>>
effects == <<dest_state, locked, lvsnap, ops, now, tool_failures>>
\* The state of query-mongo-backups.py, a separate program.
query == <<q_pc, q_snapshots, limit, q_result>>
\* What rsync printed, and self.stats['rsync_stats'].
capture == <<rsync_output, stats>>
vars == <<pc, exit_code, crash_cause, args, host, cloud, locals, effects,
          iterations, capture, query>>

\* ------------------------------------------------------- pure functions
Max(S) == CHOOSE x \in S : \A y \in S : y <= x

\* re.match(fnmatch.translate('xvd*'), f)
MatchesXvd(f) == f >= 10 /\ f <= 269

RECURSIVE WalkLatest(_, _, _)
WalkLatest(listing, i, latest) ==
  IF i > Len(listing) THEN latest
  ELSE LET block_devices == {f \in listing[i] : MatchesXvd(f)}
       IN WalkLatest(listing, i + 1,
                     IF block_devices # {} THEN Max(block_devices) ELSE latest)

get_latest_block_device(listing) == WalkLatest(listing, 1, None)

\* all_block_devices.index(latest_block_device): the position of the name
\* in xvda..xvdz, or 0 when list.index raises ValueError.
IndexInAll(d) == IF d # None /\ d % 10 = 0 /\ d \div 10 \in 1..26
                 THEN d \div 10 ELSE 0

\* Raises stands for the ValueError / IndexError the lookup raises.
get_next_free_block_device(listing) ==
  LET latest == get_latest_block_device(listing)
      _index == IndexInAll(latest)
  IN IF _index = 0 THEN Raises
     ELSE IF _index + 1 > 26 THEN Raises
     ELSE (_index + 1) * 10

\* physical_block_devices: the PV names of the volume group.
physical_block_devices == {xvdf}

RECURSIVE SumSeq(_)
SumSeq(s) == IF s = <<>> THEN 0 ELSE Head(s) + SumSeq(Tail(s))

\* logical_volume['lvsize']: every LV of the group is added, then ceil.
logical_volume(sizes) == (SumSeq(sizes) + GiB - 1) \div GiB

RECURSIVE ScanLast(_, _, _, _)
ScanLast(snaps, i, date, sid) ==
  IF i > Len(snaps) THEN sid
  ELSE IF snaps[i].StartTime > date
       THEN ScanLast(snaps, i + 1, snaps[i].StartTime, snaps[i].SnapshotId)
       ELSE ScanLast(snaps, i + 1, date, sid)

\* last_snapshot['snapshot_id']; the 1970 epoch is time 0.
last_snapshot(snaps) == ScanLast(snaps, 1, 0, None)

Op(o, v, d, s, sn, r) ==
  [op |-> o, vol |-> v, dev |-> d, size |-> s, snap |-> sn, rc |-> r]

\* Values of --action (choices dev and backup, default backup).
Actions == {"backup", "dev"}

\* Values of --wait-time (type=int, default 60).
WaitTimes == {0, 2}

\* No rsync output has been captured.
StatsIdle ==
  /\ rsync_output = <<>>
  /\ stats = <<>>

\* The query program is not running.
QueryIdle ==
  /\ q_pc = "idle"
  /\ q_snapshots = <<>>
  /\ limit = 0
  /\ q_result = <<>>

\* ------------------------------------------------------------------ Init
Init ==
  /\ pc = "start"
  /\ exit_code = -1
  /\ crash_cause = "none"
  /\ action \in Actions
  /\ volumes \in SeqsUpTo(VolumeKinds, MaxVolumes)
  /\ seed_from_last_snapshot \in BOOLEAN
  /\ mongo_lock \in BOOLEAN
  /\ log_group_name \in BOOLEAN
  /\ wait_time \in WaitTimes
  /\ lv_sizes \in LvSizeLists
  /\ dev \in DevListings
  /\ snapshots \in SnapshotSets
  /\ dev_changes = 0
  /\ snap_changes = 0
  /\ kernel_pending = None
  /\ idx = 0
  /\ size = 0
  /\ volume_type = "none"
  /\ source_device = None
  /\ new_volume = None
  /\ dest_state = "none"
  /\ snapshot_id_logged = None
  /\ snapshot_id_checked = None
  /\ last_block_device = None
  /\ attach_device = None
  /\ latest_block_device = Unbound
  /\ locked = FALSE
  /\ lvsnap = FALSE
  /\ ops = <<>>
  /\ now = 1
  /\ date_started = 0
  /\ snapshot_tags = <<>>
  /\ tool_failures = 0
  /\ iterations = 0
  /\ StatsIdle
  /\ QueryIdle

\* An uncaught exception: the interpreter prints a traceback and exits 1.
\* cause is "collaborator" when an external call raised, and otherwise the
\* exception the program's own code raised.
Raise(cause) == pc' = "crashed" /\ exit_code' = 1 /\ crash_cause' = cause
Crash == Raise("collaborator")
Goto(q) == pc' = q /\ UNCHANGED <<exit_code, crash_cause>>
\* sys.exit(code), or main() returning None to sys.exit.
Exit(q, code) == pc' = q /\ exit_code' = code /\ UNCHANGED crash_cause
OnlyPc == UNCHANGED <<capture, query, iterations, args, host, cloud, locals, effects>>

\* MongoBackups.log: the console message cannot fail; with a log group
\* configured the CloudWatch calls (create_log_stream, put_log_events) can
\* raise, and nothing catches the exception.
log(p, q) ==
  /\ pc = p
  /\ \/ Goto(q)
     \/ log_group_name /\ Crash
  /\ OnlyPc

\* A command run with subprocess.call: the exit status is discarded.
ToolRc(rc) == /\ rc \in {0, 1}
              /\ rc = 1 => tool_failures < MaxToolFailures
              /\ tool_failures' = tool_failures + rc

\* main(), lines 410-415: record the start date and list the live volumes
\* (describe_volumes can raise); any action but backup skips the loop and
\* main() returns None.
Start ==
  /\ pc = "start"
  /\ date_started' = now
  /\ \/ action = "backup" /\ idx' = 1 /\ Goto("loop")
     \/ action # "backup" /\ idx' = 1 /\ Exit("returned", ExitNoVolume)
     \/ Crash /\ UNCHANGED idx
  /\ UNCHANGED <<capture, query, iterations, args, host, cloud, effects, size, volume_type, source_device,
                 new_volume, snapshot_id_logged, snapshot_id_checked,
                 last_block_device, attach_device, latest_block_device,
                 snapshot_tags>>

\* The for loop is exhausted: main() returns None and sys.exit(None) is 0.
ReturnNoVolume ==
  /\ pc = "loop"
  /\ idx > Len(volumes)
  /\ Exit("returned", ExitNoVolume)
  /\ OnlyPc

\* volume['Attachments'][0] on an empty list raises IndexError.
DiscoverIndexError ==
  /\ pc = "loop"
  /\ idx <= Len(volumes)
  /\ volumes[idx].Attachments = <<>>
  /\ Raise("IndexError")
  /\ OnlyPc

Eligible_InstanceOnly(v) == v.Attachments[1].InstanceId = ME

\* The eligibility test of lines 425-426 on the first attachment.  Its
\* operands ask the metadata service for the instance id and open the
\* volume group; either can raise, as can logical_volume at line 429.
Eligible(v) ==
  /\ v.Attachments[1].InstanceId = ME
  /\ v.Attachments[1].Device \in physical_block_devices

DiscoverSkip ==
  /\ pc = "loop"
  /\ idx <= Len(volumes)
  /\ volumes[idx].Attachments # <<>>
  /\ ~Eligible(volumes[idx])
  /\ \/ idx' = idx + 1 /\ Goto("loop")
     \/ Crash /\ UNCHANGED idx
  /\ UNCHANGED <<capture, query, iterations, args, host, cloud, effects, size, volume_type, source_device,
                 new_volume, snapshot_id_logged, snapshot_id_checked,
                 last_block_device, attach_device, latest_block_device,
                 date_started, snapshot_tags>>

DiscoverSelect ==
  /\ pc = "loop"
  /\ idx <= Len(volumes)
  /\ volumes[idx].Attachments # <<>>
  /\ Eligible(volumes[idx])
  /\ \/ /\ size' = logical_volume(lv_sizes)
        /\ volume_type' = volumes[idx].VolumeType
        /\ source_device' = volumes[idx].Attachments[1].Device
        /\ Goto(IF seed_from_last_snapshot THEN "seed_log" ELSE "fresh_log")
     \/ Crash /\ UNCHANGED <<size, volume_type, source_device>>
  /\ UNCHANGED <<capture, query, iterations, args, host, cloud, effects, idx,
                 new_volume, snapshot_id_logged, snapshot_id_checked,
                 last_block_device, attach_device, latest_block_device,
                 date_started, snapshot_tags>>

\* Lines 433-440: the log message queries last_snapshot a first time
\* (describe_snapshots can raise) and is then logged.
SeedLog ==
  /\ pc = "seed_log"
  /\ \/ /\ snapshot_id_logged' = last_snapshot(snapshots)
        /\ \/ Goto("seed_check")
           \/ log_group_name /\ Crash
     \/ Crash /\ UNCHANGED snapshot_id_logged
  /\ UNCHANGED <<capture, query, iterations, args, host, cloud, effects, idx, size, volume_type,
                 source_device, new_volume, snapshot_id_checked,
                 last_block_device, attach_device, latest_block_device,
                 date_started, snapshot_tags>>

SeedCheck_NoCheck ==
  /\ pc = "seed_check"
  /\ snapshot_id_checked' = last_snapshot(snapshots)
  /\ Goto("seed_create")
  /\ UNCHANGED <<capture, query, iterations, args, host, cloud, effects, idx, size, volume_type,
                 source_device, new_volume, snapshot_id_logged,
                 last_block_device, attach_device, latest_block_device,
                 date_started, snapshot_tags>>

\* Line 441: last_snapshot is queried a second time for the check.
SeedCheck ==
  /\ pc = "seed_check"
  /\ \/ /\ snapshot_id_checked' = last_snapshot(snapshots)
        /\ Goto(IF last_snapshot(snapshots) = None
                THEN "seed_none" ELSE "seed_create")
     \/ Crash /\ UNCHANGED snapshot_id_checked
  /\ UNCHANGED <<capture, query, iterations, args, host, cloud, effects, idx, size, volume_type,
                 source_device, new_volume, snapshot_id_logged,
                 last_block_device, attach_device, latest_block_device,
                 date_started, snapshot_tags>>

SeedNone_ExitZero ==
  /\ pc = "seed_none"
  /\ \/ Exit("exited_no_snapshot", 0)
     \/ log_group_name /\ Crash
  /\ OnlyPc

\* Lines 442-443: log "No snapshots exist yet." and sys.exit(2).
SeedNone ==
  /\ pc = "seed_none"
  /\ \/ Exit("exited_no_snapshot", ExitNoSnapshot)
     \/ log_group_name /\ Crash
  /\ OnlyPc

\* Lines 445-450 with ebs_create_volume, lines 247-272.  last_snapshot is
\* queried a third time for the argument.  With a snapshot id the method
\* calls self.logs, an attribute that does not exist: AttributeError before
\* the snapshot_completed wait and before create_volume.  Without one it
\* calls create_volume(Size=None), which the client rejects.
ebs_create_volume_seed ==
  /\ pc = "seed_create"
  /\ \/ IF last_snapshot(snapshots) # None
        THEN UNCHANGED ops /\ Raise("AttributeError")
        ELSE /\ ops' = Append(ops, Op("create_volume", None, None, None,
                                      None, 1))
             /\ Raise("ParamValidationError")
     \/ Crash /\ UNCHANGED ops
  /\ UNCHANGED <<capture, query, iterations, args, host, cloud, locals, dest_state, locked, lvsnap, now,
                 tool_failures>>

\* Others create or delete snapshots of the cluster while the run is
\* between its three last_snapshot queries.
EnvSnapshotCreate ==
  /\ pc \in {"seed_check", "seed_create"}
  /\ snap_changes < MaxSnapChanges
  /\ snapshots' = Append(snapshots, [SnapshotId |-> 10 + snap_changes,
                                      StartTime |-> 10 + snap_changes])
  /\ snap_changes' = snap_changes + 1
  /\ UNCHANGED <<pc, exit_code, crash_cause, capture, query, iterations, args, host, locals, effects>>

EnvSnapshotDelete ==
  /\ pc \in {"seed_check", "seed_create"}
  /\ snap_changes < MaxSnapChanges
  /\ \E i \in 1..Len(snapshots) :
       snapshots' = [j \in 1..(Len(snapshots) - 1) |->
                       IF j < i THEN snapshots[j] ELSE snapshots[j + 1]]
  /\ snap_changes' = snap_changes + 1
  /\ UNCHANGED <<pc, exit_code, crash_cause, capture, query, iterations, args, host, locals, effects>>

\* Lines 452-458: the fresh-sized strategy.
LogCreating == log("fresh_log", "fresh_create")

ebs_create_volume ==
  /\ pc = "fresh_create"
  /\ \/ /\ new_volume' = NewVolumeId
        /\ dest_state' = "creating"
        /\ ops' = Append(ops, Op("create_volume", NewVolumeId, None, size,
                                 None, 0))
        /\ Goto("log_wait_available")
     \/ /\ ops' = Append(ops, Op("create_volume", None, None, size, None,
                                 1))
        /\ Crash
        /\ UNCHANGED <<new_volume, dest_state>>
     \/ Crash /\ UNCHANGED <<ops, new_volume, dest_state>>
  /\ UNCHANGED <<capture, query, iterations, args, host, cloud, idx, size, volume_type, source_device,
                 snapshot_id_logged, snapshot_id_checked,
                 last_block_device, attach_device, latest_block_device,
                 date_started, snapshot_tags, locked, lvsnap, now,
                 tool_failures>>


\* Lines 461-469: wait for the new volume to become available.
LogWaitAvailable == log("log_wait_available", "wait_available")

WaitAvailable ==
  /\ pc = "wait_available"
  /\ \/ dest_state' = "available" /\ Goto("log_available")
     \/ Crash /\ UNCHANGED dest_state
  /\ UNCHANGED <<capture, query, iterations, args, host, cloud, locals, locked, lvsnap, ops, now,
                 tool_failures>>

LogAvailable == log("log_available", "scan_last")

\* Line 471: the pre-attach baseline.
ScanLastBlockDevice ==
  /\ pc = "scan_last"
  /\ last_block_device' = get_latest_block_device(dev)
  /\ Goto("log_last")
  /\ UNCHANGED <<capture, query, iterations, args, host, cloud, effects, idx, size, volume_type,
                 source_device, new_volume, snapshot_id_logged,
                 snapshot_id_checked, attach_device, latest_block_device,
                 date_started, snapshot_tags>>

LogLastBlockDevice == log("log_last", "next_free")

\* Line 478: /dev is walked again; the lookup may raise.
NextFreeBlockDevice ==
  /\ pc = "next_free"
  /\ IF get_next_free_block_device(dev) = Raises
     THEN Raise("LookupError") /\ UNCHANGED attach_device
     ELSE attach_device' = get_next_free_block_device(dev) /\ Goto("log_next")
  /\ UNCHANGED <<capture, query, iterations, args, host, cloud, effects, idx, size, volume_type,
                 source_device, new_volume, snapshot_id_logged,
                 snapshot_id_checked, last_block_device, latest_block_device,
                 date_started, snapshot_tags>>

LogNextFree == log("log_next", "log_attach")
LogAttaching == log("log_attach", "attach")

\* Lines 489-493.  The InstanceId argument asks the metadata service, which
\* can raise before attach_volume is called.  Once the request is accepted
\* the guest kernel registers the device at some later time.
AttachVolume ==
  /\ pc = "attach"
  /\ \/ /\ dest_state' = "attached"
        /\ kernel_pending' = attach_device
        /\ ops' = Append(ops, Op("attach_volume", new_volume, attach_device,
                                 None, None, 0))
        /\ Goto("poll")
     \/ /\ ops' = Append(ops, Op("attach_volume", new_volume, attach_device,
                                 None, None, 1))
        /\ Crash
        /\ UNCHANGED <<dest_state, kernel_pending>>
     \/ Crash /\ UNCHANGED <<ops, dest_state, kernel_pending>>
  /\ UNCHANGED <<capture, query, iterations, args, cloud, locals, dev, dev_changes, locked, lvsnap, now,
                 tool_failures>>

InDeviceWindow ==
  pc \in {"next_free", "log_next", "log_attach", "attach", "poll",
          "poll_log", "poll_attached"}

\* The guest kernel registers the attached volume under the requested name.
KernelRegister ==
  /\ pc \in {"poll", "poll_log", "poll_attached"}
  /\ kernel_pending # None
  /\ dev' = [dev EXCEPT ![1] = @ \cup {kernel_pending}]
  /\ kernel_pending' = None
  /\ UNCHANGED <<pc, exit_code, crash_cause, capture, query, iterations, args, cloud, locals, effects, dev_changes>>

\* Something outside the run attaches or detaches another device.
EnvDeviceAppears ==
  /\ InDeviceWindow
  /\ dev_changes < MaxDevChanges
  /\ \E d \in {xvdg, xvdh} \ dev[1] :
       dev' = [dev EXCEPT ![1] = @ \cup {d}]
  /\ dev_changes' = dev_changes + 1
  /\ UNCHANGED <<pc, exit_code, crash_cause, capture, query, iterations, args, cloud, locals, effects, kernel_pending>>

EnvDeviceDisappears ==
  /\ InDeviceWindow
  /\ dev_changes < MaxDevChanges
  /\ \E d \in (dev[1] \cap {xvdg, xvdh}) \ {kernel_pending} :
       dev' = [dev EXCEPT ![1] = @ \ {d}]
  /\ dev_changes' = dev_changes + 1
  /\ UNCHANGED <<pc, exit_code, crash_cause, capture, query, iterations, args, cloud, locals, effects, kernel_pending>>

\* Lines 497-511.  count is set to 0 and never incremented, so the loop
\* condition is 0 < wait_time on every evaluation.  iterations counts the
\* executions of the loop body (it stops counting at MaxPollIterations).
PollSkip ==
  /\ pc = "poll"
  /\ ~(0 < wait_time)
  /\ Goto("log_mkfs")
  /\ OnlyPc

PollScan ==
  /\ pc = "poll"
  /\ 0 < wait_time
  /\ latest_block_device' = get_latest_block_device(dev)
  /\ iterations' = IF iterations < MaxPollIterations
                   THEN iterations + 1 ELSE iterations
  /\ Goto("poll_log")
  /\ UNCHANGED <<capture, query, args, host, cloud, effects, idx, size, volume_type,
                 source_device, new_volume, snapshot_id_logged,
                 snapshot_id_checked, last_block_device, attach_device,
                 date_started, snapshot_tags>>

PollLog ==
  /\ pc = "poll_log"
  /\ \/ Goto(IF last_block_device # latest_block_device
             THEN "poll_attached" ELSE "poll")
     \/ log_group_name /\ Crash
  /\ OnlyPc

LogNewBlockDevice == log("poll_attached", "log_mkfs")

\* Lines 514-517: formatting the message reads latest_block_device, which
\* is unbound when the loop body never ran (UnboundLocalError).
LogMkfs ==
  /\ pc = "log_mkfs"
  /\ IF latest_block_device = Unbound
     THEN Raise("UnboundLocalError")
     ELSE \/ Goto("mkfs")
          \/ log_group_name /\ Crash
  /\ OnlyPc

ToolFrame == UNCHANGED <<capture, query, iterations, args, host, cloud, locals, dest_state, locked, now>>

\* Lines 518-522.
Mkfs ==
  /\ pc = "mkfs"
  /\ \E rc \in {0, 1} :
       /\ ToolRc(rc)
       /\ ops' = Append(ops, Op("mkfs", None, latest_block_device, None,
                                None, rc))
  /\ Goto("log_mkdtemp")
  /\ UNCHANGED lvsnap
  /\ ToolFrame

\* Lines 526-530: the log call, then two tempfile.mkdtemp(prefix='/media/'),
\* which raise when the directory cannot be created.
LogMkdtemp ==
  /\ pc = "log_mkdtemp"
  /\ \/ Goto("log_mount")
     \/ Crash
  /\ OnlyPc

LogMount == log("log_mount", "mount")

\* Lines 537-541.
MountNewVolume ==
  /\ pc = "mount"
  /\ \E rc \in {0, 1} :
       /\ ToolRc(rc)
       /\ ops' = Append(ops, Op("mount_rw", None, latest_block_device, None,
                                None, rc))
  /\ Goto(IF mongo_lock THEN "log_lock" ELSE "log_lvcreate")
  /\ UNCHANGED lvsnap
  /\ ToolFrame

\* Lines 544-547.
LogLocking == log("log_lock", "lock")

LockMongo ==
  /\ pc = "lock"
  /\ \/ /\ locked' = TRUE
        /\ ops' = Append(ops, Op("fsync_lock", None, None, None, None, 0))
        /\ Goto("log_lvcreate")
     \/ /\ ops' = Append(ops, Op("fsync_lock", None, None, None, None, 1))
        /\ Crash
        /\ UNCHANGED locked
  /\ UNCHANGED <<capture, query, iterations, args, host, cloud, locals, dest_state, lvsnap, now,
                 tool_failures>>

\* Lines 550-559.
LogLvcreate == log("log_lvcreate", "lvcreate")

Lvcreate_NoUnlock ==
  /\ pc = "lvcreate"
  /\ \E rc \in {0, 1} :
       /\ ToolRc(rc)
       /\ ops' = Append(ops, Op("lvcreate", None, None, None, None, rc))
       /\ lvsnap' = (rc = 0)
  /\ Goto("log_mount_snap")
  /\ ToolFrame

Lvcreate ==
  /\ pc = "lvcreate"
  /\ \E rc \in {0, 1} :
       /\ ToolRc(rc)
       /\ ops' = Append(ops, Op("lvcreate", None, None, None, None, rc))
       /\ lvsnap' = (rc = 0)
  /\ Goto(IF mongo_lock THEN "log_unlock" ELSE "log_mount_snap")
  /\ ToolFrame

\* Lines 562-564.
LogUnlocking == log("log_unlock", "unlock")

UnlockMongo ==
  /\ pc = "unlock"
  /\ \/ /\ locked' = FALSE
        /\ ops' = Append(ops, Op("unlock", None, None, None, None, 0))
        /\ Goto("log_mount_snap")
     \/ /\ ops' = Append(ops, Op("unlock", None, None, None, None, 1))
        /\ Crash
        /\ UNCHANGED locked
  /\ UNCHANGED <<capture, query, iterations, args, host, cloud, locals, dest_state, lvsnap, now,
                 tool_failures>>

\* Lines 567-580.
LogMountSnapshot == log("log_mount_snap", "mount_snap")

MountSnapshot ==
  /\ pc = "mount_snap"
  /\ \E rc \in {0, 1} :
       /\ ToolRc(rc)
       /\ ops' = Append(ops, Op("mount_ro", None, None, None, None, rc))
  /\ Goto("log_rsync")
  /\ UNCHANGED lvsnap
  /\ ToolFrame

\* ------------------------------------------------ capture_rsync_stats
\* A str is a sequence of one-character strings; a bytes value likewise,
\* with BadByte standing for a byte that is not valid UTF-8.
BadByte == "xFF"
NewLine == "\n"

LowerLetters == <<"a", "b", "c", "d", "e", "f", "g", "h", "i", "j", "k", "l", "m",
                 "n", "o", "p", "q", "r", "s", "t", "u", "v", "w", "x", "y", "z">>
UpperLetters == <<"A", "B", "C", "D", "E", "F", "G", "H", "I", "J", "K", "L", "M",
                 "N", "O", "P", "Q", "R", "S", "T", "U", "V", "W", "X", "Y", "Z">>
\* \s of the re module on a str: the characters str.isspace() accepts.  A
\* character a string of this module cannot spell is written as its code
\* point, "x0B" for U+000B.
Whitespace ==
  {" ", "\t", "\n", "\r", "\f", "x0B", "x1C", "x1D", "x1E", "x1F", "x85",
   "xA0", "u1680", "u2000", "u2001", "u2002", "u2003", "u2004", "u2005",
   "u2006", "u2007", "u2008", "u2009", "u200A", "u2028", "u2029", "u202F",
   "u205F", "u3000"}
\* The character class [0-9+|[0-9\.] of the value group.
ValueChars == {"0", "1", "2", "3", "4", "5", "6", "7", "8", "9",
               "+", "|", "[", "."}
\* (File|Number|Total|Literal|Matched)
Keywords == << <<"F", "i", "l", "e">>,
              <<"N", "u", "m", "b", "e", "r">>,
              <<"T", "o", "t", "a", "l">>,
              <<"L", "i", "t", "e", "r", "a", "l">>,
              <<"M", "a", "t", "c", "h", "e", "d">> >>

SeqToSet(q) == {q[i] : i \in DOMAIN q}

\* str.lower() of one character.
Lower(c) ==
  IF \E i \in DOMAIN UpperLetters : UpperLetters[i] = c
  THEN LowerLetters[CHOOSE i \in DOMAIN UpperLetters : UpperLetters[i] = c]
  ELSE c

IsPrefix(w, l) == Len(w) <= Len(l) /\ SubSeq(l, 1, Len(w)) = w

\* rsync_output.split(b'\n'): the pieces between the newlines, one more
\* than there are newlines.
Split(bytes) ==
  LET nl == {i \in DOMAIN bytes : bytes[i] = NewLine}
      Nth(k) == CHOOSE i \in nl : Cardinality({j \in nl : j < i}) = k - 1
      n == Cardinality(nl) + 1
  IN [k \in 1..n |->
        SubSeq(bytes, IF k = 1 THEN 1 ELSE Nth(k - 1) + 1,
                      IF k = n THEN Len(bytes) ELSE Nth(k) - 1)]

\* bytes.decode() succeeds.
Decodable(line) == \A i \in DOMAIN line : line[i] # BadByte

RemoveCommas_Keeps(line) == line

\* output_line.replace(",", "")
RemoveCommas(line) == SelectSeq(line, LAMBDA c : c # ",")

\* The first position from i on whose character is not in S.
RunEnd(l, i, S) ==
  LET stops == {j \in i..Len(l) : l[j] \notin S}
  IN IF i > Len(l) THEN i
     ELSE IF stops = {} THEN Len(l) + 1
     ELSE CHOOSE j \in stops : \A k \in stops : j <= k

\* re.search(regex, output_line), lines 387-391: <<>> for no match, else
\* the key and value groups.
RegexSearch(l) ==
  LET kws == {k \in DOMAIN Keywords : IsPrefix(Keywords[k], l)}
  IN IF kws = {} THEN <<>>
     ELSE LET k == CHOOSE x \in kws : TRUE
              p == Len(Keywords[k]) + 1
              q == RunEnd(l, p, SeqToSet(LowerLetters) \cup Whitespace)
              e == RunEnd(l, q + 2, ValueChars)
          IN IF /\ q > p
                /\ q + 1 <= Len(l)
                /\ l[q] = ":"
                /\ l[q + 1] \in Whitespace
                /\ e > q + 2
             THEN << [key |-> SubSeq(l, 1, q - 1),
                      value |-> SubSeq(l, q + 2, e - 1)] >>
             ELSE <<>>

\* Lines 392-398: the tag appended for a match.
StatEntry(found) ==
  [Key |-> <<"r", "s", "y", "n", "c", "_">> \o
             [i \in DOMAIN found.key |->
                IF Lower(found.key[i]) = " " THEN "_"
                ELSE Lower(found.key[i])],
   Value |-> found.value]

\* The loop of lines 384-398 from line i on; it stops at a line that does
\* not decode.
RECURSIVE CaptureLines(_, _, _)
CaptureLines(lines, i, acc) ==
  IF i > Len(lines) THEN acc
  ELSE IF ~Decodable(lines[i]) THEN acc
  ELSE LET found == RegexSearch(RemoveCommas(lines[i]))
       IN CaptureLines(lines, i + 1,
            IF found # <<>> THEN Append(acc, StatEntry(found[1])) ELSE acc)

\* self.stats['rsync_stats'] after capture_rsync_stats(rsync_output).
capture_rsync_stats(output) == CaptureLines(Split(output), 1, <<>>)

\* capture_rsync_stats(rsync_output) raises UnicodeDecodeError.
CaptureRaises(output) ==
  \E i \in DOMAIN Split(output) : ~Decodable(Split(output)[i])

\* Lines 583-596: check_output raises CalledProcessError on a nonzero status.
LogRsync == log("log_rsync", "rsync")

\* What rsync -a --stats prints on success, shortened to two statistics
\* lines and the closing summary.
RsyncOutputs ==
  { << "N", "u", "m", "b", "e", "r", " ", "o", "f", " ", "f", "i",
       "l", "e", "s", ":", " ", "1", ",", "2", "3", "4", "\n", "T",
       "o", "t", "a", "l", " ", "f", "i", "l", "e", " ", "s", "i",
       "z", "e", ":", " ", "9", "9", " ", "b", "y", "t", "e", "s",
       "\n", "\n", "s", "e", "n", "t", " ", "9", " ", "b", "y", "t",
       "e", "s", "\n" >>,
    << "N", "u", "m", "b", "e", "r", " ", "o", "f", " ", "f", "i",
       "l", "e", "s", ":", " ", "7", "\n", "T", "o", "t", "a", "l",
       " ", "f", "i", "l", "e", " ", "s", "i", "z", "e", ":", " ",
       "0", " ", "b", "y", "t", "e", "s", "\n" >> }

\* The tag keys of RsyncOutputs as the strings the tag lists use.
Str(chars) ==
  CASE chars = << "r", "s", "y", "n", "c", "_", "n", "u", "m", "b",
                    "e", "r", "_", "o", "f", "_", "f", "i", "l", "e",
                    "s" >>
         -> "rsync_number_of_files"
    [] chars = << "r", "s", "y", "n", "c", "_", "t", "o", "t", "a",
                    "l", "_", "f", "i", "l", "e", "_", "s", "i", "z",
                    "e" >>
         -> "rsync_total_file_size"

StatTags(entries) ==
  [i \in DOMAIN entries |->
     [Key |-> Str(entries[i].Key), Value |-> entries[i].Value]]

Rsync ==
  /\ pc = "rsync"
  /\ \E rc \in {0, 1} :
       /\ ToolRc(rc)
       /\ ops' = Append(ops, Op("rsync", None, None, None, None, rc))
       /\ IF rc = 0
          THEN /\ \E out \in RsyncOutputs :
                    /\ rsync_output' = out
                    /\ stats' = capture_rsync_stats(out)
               /\ Goto("umount_snap")
          ELSE /\ Raise("CalledProcessError")
               /\ UNCHANGED capture
  /\ UNCHANGED <<lvsnap, query, iterations, args, host, cloud, locals,
                 dest_state, locked, now>>

UmountSnapshot_SkipsUmountNew ==
  /\ pc = "umount_snap"
  /\ \E rc \in {0, 1} :
       /\ ToolRc(rc)
       /\ ops' = Append(ops, Op("umount_snap", None, None, None, None, rc))
  /\ Goto("lvremove")
  /\ UNCHANGED lvsnap
  /\ ToolFrame

\* Lines 598-615: the teardown, in the order the code issues it.
UmountSnapshot ==
  /\ pc = "umount_snap"
  /\ \E rc \in {0, 1} :
       /\ ToolRc(rc)
       /\ ops' = Append(ops, Op("umount_snap", None, None, None, None, rc))
  /\ Goto("umount_new")
  /\ UNCHANGED lvsnap
  /\ ToolFrame

UmountNewVolume ==
  /\ pc = "umount_new"
  /\ \E rc \in {0, 1} :
       /\ ToolRc(rc)
       /\ ops' = Append(ops, Op("umount_new", None, None, None, None, rc))
  /\ Goto("lvremove")
  /\ UNCHANGED lvsnap
  /\ ToolFrame

Lvremove ==
  /\ pc = "lvremove"
  /\ \E rc \in {0, 1} :
       /\ ToolRc(rc)
       /\ ops' = Append(ops, Op("lvremove", None, None, None, None, rc))
       /\ lvsnap' = IF rc = 0 THEN FALSE ELSE lvsnap
  /\ Goto("log_snapshot")
  /\ ToolFrame


\* Lines 619-625 with ebs_create_snapshot, lines 274-310.  The name and the
\* InstanceId tag ask the metadata service (lines 280 and 287), which can
\* raise before the tag list is assigned and before create_snapshot.
LogSnapshot == log("log_snapshot", "create_snapshot")

SnapshotName == <<"MongoBackups", mongo_name, ME>>

Tags(started, finished, rsync_stats) ==
  << [Key |-> "InstanceId", Value |-> ME],
     [Key |-> "Name", Value |-> SnapshotName],
     [Key |-> "Description", Value |-> SnapshotName],
     [Key |-> "MongoName", Value |-> mongo_name],
     [Key |-> "MongoBackups", Value |-> "True"],
     [Key |-> "DateStarted", Value |-> started],
     [Key |-> "DateFinished", Value |-> finished],
     [Key |-> "MongoBackupsVersion", Value |-> VERSION] >> \o rsync_stats

ebs_create_snapshot ==
  /\ pc = "create_snapshot"
  /\ \/ Crash /\ UNCHANGED <<now, snapshot_tags, ops>>
     \/ \E elapsed \in 0..MaxElapsed :
          /\ now' = now + elapsed
          /\ \/ Crash /\ UNCHANGED <<snapshot_tags, ops>>
             \/ /\ snapshot_tags' =
                     Tags(date_started, now + elapsed, StatTags(stats))
                /\ \/ /\ ops' = Append(ops, Op("create_snapshot",
                                                new_volume, None, None,
                                                NewSnapshotId, 0))
                      /\ Goto("log_detach")
                   \/ /\ ops' = Append(ops, Op("create_snapshot",
                                                new_volume, None, None,
                                                None, 1))
                      /\ Crash
  /\ UNCHANGED <<capture, query, iterations, args, host, cloud, idx, size, volume_type, source_device,
                 new_volume, snapshot_id_logged, snapshot_id_checked,
                 last_block_device, attach_device, latest_block_device,
                 date_started, dest_state, locked, lvsnap, tool_failures>>

\* Lines 628-640 with ebs_detach_volume, lines 312-320.
LogDetaching == log("log_detach", "detach")

\* detach_volume is always called with Force=True (line 317); its
\* InstanceId argument asks the metadata service first (line 318).
DetachOp(v, d, r) ==
  [op |-> "detach_volume", vol |-> v, dev |-> d, size |-> None,
   snap |-> None, rc |-> r, force |-> TRUE]

ebs_detach_volume ==
  /\ pc = "detach"
  /\ \/ /\ dest_state' = "detaching"
        /\ ops' = Append(ops, DetachOp(new_volume, attach_device, 0))
        /\ Goto("wait_detached")
     \/ /\ ops' = Append(ops, DetachOp(new_volume, attach_device, 1))
        /\ Crash
        /\ UNCHANGED dest_state
     \/ Crash /\ UNCHANGED <<ops, dest_state>>
  /\ UNCHANGED <<capture, query, iterations, args, host, cloud, locals, locked, lvsnap, now,
                 tool_failures>>

WaitDetached_IgnoresFailure ==
  /\ pc = "wait_detached"
  /\ \/ dest_state' = "available" /\ Goto("log_detached")
     \/ Goto("log_detached") /\ UNCHANGED dest_state
  /\ UNCHANGED <<capture, query, iterations, args, host, cloud, locals, locked, lvsnap,
                 ops, now, tool_failures>>

\* The volume_available waiter after the detach: WaiterError on a failed
\* or timed-out wait.
WaitDetached ==
  /\ pc = "wait_detached"
  /\ \/ dest_state' = "available" /\ Goto("log_detached")
     \/ Crash /\ UNCHANGED dest_state
  /\ UNCHANGED <<capture, query, iterations, args, host, cloud, locals, locked, lvsnap, ops, now,
                 tool_failures>>

LogDetached == log("log_detached", "log_delete")
LogDeleting == log("log_delete", "delete")

\* Line 646 with ebs_delete_volume, lines 322-325.
ebs_delete_volume ==
  /\ pc = "delete"
  /\ \/ /\ dest_state' = "deleted"
        /\ ops' = Append(ops, Op("delete_volume", new_volume, None, None,
                                 None, 0))
        /\ Goto("log_complete")
     \/ /\ ops' = Append(ops, Op("delete_volume", new_volume, None, None,
                                 None, 1))
        /\ Crash
        /\ UNCHANGED dest_state
  /\ UNCHANGED <<capture, query, iterations, args, host, cloud, locals, locked, lvsnap, now,
                 tool_failures>>

\* Lines 648-659.
LogComplete == log("log_complete", "log_tags")

LogTagsAndExit ==
  /\ pc = "log_tags"
  /\ \/ Exit("exited_complete", ExitComplete)
     \/ log_group_name /\ Crash
  /\ OnlyPc

Next ==
  \/ Start \/ ReturnNoVolume \/ DiscoverIndexError \/ DiscoverSkip
  \/ DiscoverSelect \/ SeedLog \/ SeedCheck \/ SeedNone
  \/ ebs_create_volume_seed \/ EnvSnapshotCreate \/ EnvSnapshotDelete
  \/ LogCreating \/ ebs_create_volume
  \/ LogWaitAvailable \/ WaitAvailable \/ LogAvailable
  \/ ScanLastBlockDevice \/ LogLastBlockDevice \/ NextFreeBlockDevice
  \/ LogNextFree \/ LogAttaching \/ AttachVolume
  \/ KernelRegister \/ EnvDeviceAppears \/ EnvDeviceDisappears
  \/ PollSkip \/ PollScan \/ PollLog \/ LogNewBlockDevice
  \/ LogMkfs \/ Mkfs \/ LogMkdtemp \/ LogMount \/ MountNewVolume
  \/ LogLocking \/ LockMongo \/ LogLvcreate \/ Lvcreate
  \/ LogUnlocking \/ UnlockMongo \/ LogMountSnapshot \/ MountSnapshot
  \/ LogRsync \/ Rsync \/ UmountSnapshot \/ UmountNewVolume \/ Lvremove
  \/ LogSnapshot \/ ebs_create_snapshot \/ LogDetaching \/ ebs_detach_volume
  \/ WaitDetached \/ LogDetached \/ LogDeleting \/ ebs_delete_volume
  \/ LogComplete \/ LogTagsAndExit

Spec == Init /\ [][Next]_vars

Terminated == pc \in {"returned", "exited_no_snapshot", "exited_complete",
                      "crashed"}

\* ------------------------------------------------------------ properties
OpIdx(name) == {i \in DOMAIN ops : ops[i].op = name}
Issued(name) == OpIdx(name) # {}
Count(name) == Cardinality(OpIdx(name))
Succeeded(name) == \E i \in OpIdx(name) : ops[i].rc = 0
VolumeCreated == new_volume # None
HasEligible == \E i \in DOMAIN volumes :
                 volumes[i].Attachments # <<>> /\ Eligible(volumes[i])
NoCollaboratorFailure ==
  /\ crash_cause # "collaborator"
  /\ tool_failures = 0
  /\ \A i \in DOMAIN ops : ops[i].rc = 0

\* C1: every run that created a destination volume issues detach and then
\* delete for it before the process exits, so that no run terminates with
\* its destination volume still existing.
C1_CleanupOnEveryExit ==
  (Terminated /\ VolumeCreated) =>
    /\ \E i \in OpIdx("detach_volume") : \E j \in OpIdx("delete_volume") :
         i < j /\ ops[i].vol = new_volume /\ ops[j].vol = new_volume
    /\ dest_state = "deleted"

\* C2: once the flush-lock call has succeeded, every path reaches an
\* unlock call before the process exits; the database is never left locked
\* at termination.
C2_UnlockAlwaysReached ==
  (Terminated /\ mongo_lock /\ Succeeded("fsync_lock")) =>
    Issued("unlock") /\ ~locked

\* C3: in every terminal state of a run that issued the local-snapshot
\* create command, the local-snapshot remove command has been issued too.
C3_LocalSnapshotRemoved ==
  (Terminated /\ Issued("lvcreate")) => Issued("lvremove")

\* C4: the targets of attach, detach, delete, cloud snapshot, mkfs and the
\* read-write mount are the destination volume or its device, never the
\* source volume or the device backing the source volume group.
C4_SourceNeverTargeted ==
  \A i \in DOMAIN ops :
    /\ ops[i].op \in {"mkfs", "mount_rw"} =>
         ops[i].dev \notin physical_block_devices
    /\ ops[i].op \in {"attach_volume", "detach_volume"} =>
         ops[i].dev \notin physical_block_devices /\ ops[i].vol = new_volume
    /\ ops[i].op \in {"delete_volume", "create_snapshot"} =>
         ops[i].vol = new_volume

\* C5: with an eligible live volume and every collaborator call succeeding,
\* the run creates exactly one destination volume, attaches it at the
\* computed next-free device, issues exactly one local-snapshot create and
\* one remove, creates exactly one cloud snapshot whose MongoName tag is the
\* cluster name and whose DateFinished is not earlier than DateStarted, and
\* ends with no destination volume remaining.
TagValue(tags, key) ==
  LET found == {i \in DOMAIN tags : tags[i].Key = key}
  IN tags[CHOOSE i \in found : \A j \in found : i <= j].Value

C5_EndToEnd ==
  (Terminated /\ action = "backup" /\ HasEligible
     /\ NoCollaboratorFailure) =>
    /\ pc = "exited_complete"
    /\ Count("create_volume") = 1
    /\ Count("attach_volume") = 1
    /\ \A i \in OpIdx("attach_volume") :
         ops[i].dev = attach_device /\ ops[i].vol = new_volume
    /\ Count("lvcreate") = 1
    /\ Count("lvremove") = 1
    /\ Count("create_snapshot") = 1
    /\ TagValue(snapshot_tags, "MongoName") = mongo_name
    /\ TagValue(snapshot_tags, "DateFinished")
         >= TagValue(snapshot_tags, "DateStarted")
    /\ dest_state = "deleted"

\* C6 (as claimed): the exit codes of the three outcomes - no eligible
\* volume, backup completed, seed requested without a prior snapshot - are
\* pairwise different.
ExitCodeOf(outcome) ==
  CASE outcome = "returned" -> ExitNoVolume
    [] outcome = "exited_complete" -> ExitComplete
    [] outcome = "exited_no_snapshot" -> ExitNoSnapshot

Outcomes == {"returned", "exited_complete", "exited_no_snapshot"}

C6_ThreeDistinctExitCodes ==
  pc \in Outcomes =>
    \A other \in Outcomes \ {pc} : exit_code # ExitCodeOf(other)

\* C6 (amended): a run that found no eligible volume and a run that
\* completed a backup both exit with code 0; a run where seeding was
\* requested without a prior snapshot exits with code 2, which differs
\* from both.
C6_ExitCodes ==
  /\ pc = "returned" => exit_code = 0
  /\ pc = "exited_complete" => exit_code = 0
  /\ pc = "exited_no_snapshot" => exit_code = 2

C6_Witness == pc = "exited_complete" /\ exit_code = 0 /\ Succeeded("delete_volume")

NoSnapshotEver == snapshots = <<>> /\ snap_changes = 0

\* C7 (as claimed): with seeding requested and no snapshot of the cluster,
\* the run issues no create-volume, attach, format, lock or local-snapshot
\* command and exits with code 2.
C7_SeedWithoutSnapshotExits2 ==
  (Terminated /\ seed_from_last_snapshot /\ NoSnapshotEver) =>
    /\ \A i \in DOMAIN ops :
         ops[i].op \notin {"create_volume", "attach_volume", "mkfs",
                           "fsync_lock", "lvcreate"}
    /\ exit_code = 2

\* C7 (amended): with seeding requested and no snapshot of the cluster, the
\* run issues no create-volume, attach, format, lock or local-snapshot
\* command; it exits with code 2 when the action is backup, discovery
\* reaches an eligible volume and no call raises, with code 0 when no volume
\* is eligible or the action is not backup, and with code 1 when an
\* exception escapes.
C7_SeedWithoutSnapshot ==
  (seed_from_last_snapshot /\ NoSnapshotEver) =>
    /\ \A i \in DOMAIN ops :
         ops[i].op \notin {"create_volume", "attach_volume", "mkfs",
                           "fsync_lock", "lvcreate"}
    /\ Terminated =>
         exit_code = IF crash_cause # "none" THEN 1
                     ELSE IF action = "backup" /\ HasEligible THEN 2
                     ELSE 0

C7_Witness ==
  /\ action = "backup"
  /\ seed_from_last_snapshot /\ NoSnapshotEver
  /\ pc = "exited_no_snapshot" /\ exit_code = 2 /\ ops = <<>>

\* C8: with seeding requested and a prior snapshot found by the check, the
\* run creates the destination volume as a clone of that snapshot
\* (SnapshotId set, no size), and only after the wait for the snapshot's
\* completed state has returned.
C8_SeedClonesPriorSnapshot ==
  (Terminated /\ seed_from_last_snapshot /\ snapshot_id_checked # None
     /\ snap_changes = 0 /\ crash_cause # "collaborator") =>
    \E i \in OpIdx("create_volume") :
      /\ ops[i].snap = snapshot_id_checked
      /\ ops[i].size = None
      /\ \E j \in OpIdx("wait_snapshot_completed") : j < i

\* C9: if every live-tagged volume is attached to another instance or at a
\* device path outside the volume group's physical devices, the run selects
\* no volume, issues no mutating cloud, tool or database operation, and
\* exits cleanly as a no-op (exit code 0); the only other end of such a run
\* is a provider error, a discovery call that raised.
AllIneligible ==
  \A i \in DOMAIN volumes :
    /\ volumes[i].Attachments # <<>>
    /\ \/ volumes[i].Attachments[1].InstanceId # ME
       \/ volumes[i].Attachments[1].Device \notin physical_block_devices

C9_NoEligibleVolumeIsNoOp ==
  AllIneligible =>
    /\ ops = <<>>
    /\ source_device = None /\ new_volume = None
    /\ dest_state = "none" /\ ~locked /\ ~lvsnap
    /\ pc \in {"start", "loop", "returned", "crashed"}
    /\ pc = "returned" => exit_code = 0 /\ crash_cause = "none"
    /\ pc = "crashed" => crash_cause = "collaborator"

C9_Witness ==
  /\ action = "backup"
  /\ AllIneligible /\ Len(volumes) = MaxVolumes
  /\ \E i \in DOMAIN volumes : volumes[i].Attachments[1].InstanceId = ME
  /\ pc = "returned"

\* C10: a live-tagged volume that fails the eligibility check is ignored
\* without aborting the run: whatever the attachment state of the listed
\* volumes (an empty attachment list included), discovery does not fail and
\* an eligible volume later in the list is still selected for backup.
C10_IneligibleIgnored ==
  /\ crash_cause # "IndexError"
  /\ (Terminated /\ action = "backup" /\ HasEligible
        /\ crash_cause # "collaborator") => source_device # None

\* C11: the confirmation poll is bounded: when the latest observed device
\* never changes from the baseline, the loop ends after at most wait_time
\* iterations and the run proceeds to the format step instead of failing
\* or waiting forever.
C11_PollBounded ==
  /\ iterations <= wait_time
  /\ (pc = "crashed" /\ Issued("attach_volume")
        /\ \A i \in OpIdx("attach_volume") : ops[i].rc = 0
        /\ ~Issued("mkfs"))
       => crash_cause # "UnboundLocalError"

\* C13 (as claimed): teardown runs in reverse order of creation: unmount
\* of the snapshot mount point, removal of the local snapshot, unmount of
\* the destination volume; the local snapshot is never removed after the
\* destination volume has been unmounted.
C13_ReverseOrderTeardown ==
  \A i \in OpIdx("lvremove") :
    /\ \E j \in OpIdx("umount_snap") : j < i
    /\ ~\E k \in OpIdx("umount_new") : k < i

\* C13 (amended): teardown runs in the order unmount of the snapshot mount
\* point, unmount of the destination volume, removal of the local snapshot;
\* the local snapshot is removed only after both unmounts were issued.
C13_TeardownOrder ==
  /\ \A i \in OpIdx("lvremove") :
       \E j \in OpIdx("umount_snap") : \E k \in OpIdx("umount_new") :
         j < k /\ k < i
  /\ \A k \in OpIdx("umount_new") : \E j \in OpIdx("umount_snap") : j < k

C13_Witness ==
  /\ pc = "log_snapshot"
  /\ Issued("lvremove") /\ Issued("umount_new") /\ Issued("umount_snap")

\* C14: while the database is locked the only tool or cloud operation issued
\* is the local-snapshot create command: lock is directly followed by
\* lvcreate and lvcreate by unlock, whatever lvcreate returned, before the
\* snapshot mount, the copy or any cloud call.
C14_LockWindow ==
  /\ \A i \in OpIdx("fsync_lock") :
       ops[i].rc = 0 =>
         /\ (i + 1 \in DOMAIN ops => ops[i + 1].op = "lvcreate")
         /\ (i + 2 \in DOMAIN ops => ops[i + 2].op = "unlock")
  /\ locked => ops[Len(ops)].op \in {"fsync_lock", "lvcreate", "unlock"}

C14_Witness ==
  \E i \in OpIdx("fsync_lock") :
    /\ ops[i].rc = 0
    /\ i + 3 \in DOMAIN ops
    /\ ops[i + 1].op = "lvcreate" /\ ops[i + 1].rc = 1
    /\ ops[i + 2].op = "unlock" /\ ops[i + 2].rc = 0
    /\ ops[i + 3].op = "mount_ro"
    /\ ~locked

\* C15: a nonzero exit status from any one of the format, mount,
\* local-snapshot create, snapshot mount or copy commands is tolerated: the
\* run continues, still creates the cloud snapshot, and still detaches and
\* deletes the destination volume.
C15_ToolFailureTolerated ==
  (/\ Terminated
   /\ crash_cause # "collaborator"
   /\ \E i \in DOMAIN ops :
        /\ ops[i].op \in {"mkfs", "mount_rw", "lvcreate", "mount_ro", "rsync"}
        /\ ops[i].rc = 1)
  => /\ Succeeded("create_snapshot")
     /\ Succeeded("detach_volume")
     /\ Succeeded("delete_volume")

\* C16: delete_volume is issued only after a forced detach of that volume
\* was issued and the following volume-available wait returned: never while
\* the volume is attached or detaching, and a failed wait ends the run
\* instead of being followed by the delete.
C16_DeleteOnlyWhenAvailable ==
  /\ \A i \in OpIdx("delete_volume") :
       \E j \in OpIdx("detach_volume") :
         /\ j < i
         /\ ops[j].rc = 0 /\ ops[j].force
         /\ ops[j].vol = ops[i].vol
  /\ pc = "delete" => dest_state = "available"
  /\ Issued("delete_volume") => dest_state \in {"available", "deleted"}
  /\ dest_state \in {"attached", "detaching"} => ~Issued("delete_volume")

C16_Witness ==
  /\ pc = "log_complete"
  /\ dest_state = "deleted"
  /\ Succeeded("delete_volume")

\* ------------------------------------------- block-device arbitration
\* get_next_free_block_device applied to bounded listings of /dev: one or
\* two directories in walk order, each any subset of DeviceNames.
MaxDirs == 2
DeviceNames == {xvda, xvdf, xvdp1, xvdz, sda}
WalkListings == UNION {[1..k -> SUBSET DeviceNames] : k \in 1..MaxDirs}

\* The backup run is not started.
MainIdle ==
  /\ exit_code = -1
  /\ crash_cause = "none"
  /\ action = "backup"
  /\ volumes = <<>>
  /\ seed_from_last_snapshot = FALSE
  /\ mongo_lock = FALSE
  /\ log_group_name = FALSE
  /\ wait_time = 0
  /\ lv_sizes = <<>>
  /\ snapshots = <<>>
  /\ dev_changes = 0
  /\ snap_changes = 0
  /\ kernel_pending = None
  /\ idx = 0
  /\ size = 0
  /\ volume_type = "none"
  /\ source_device = None
  /\ new_volume = None
  /\ dest_state = "none"
  /\ snapshot_id_logged = None
  /\ snapshot_id_checked = None
  /\ last_block_device = None
  /\ attach_device = None
  /\ latest_block_device = Unbound
  /\ locked = FALSE
  /\ lvsnap = FALSE
  /\ ops = <<>>
  /\ now = 1
  /\ date_started = 0
  /\ snapshot_tags = <<>>
  /\ tool_failures = 0
  /\ iterations = 0

InitDevice ==
  /\ pc = "fn_next_free"
  /\ dev \in WalkListings
  /\ MainIdle
  /\ StatsIdle
  /\ QueryIdle

\* One call of get_next_free_block_device (and of the scan it starts with).
ApplyNextFree ==
  /\ pc = "fn_next_free"
  /\ last_block_device' = get_latest_block_device(dev)
  /\ attach_device' = get_next_free_block_device(dev)
  /\ Goto("fn_done")
  /\ UNCHANGED <<capture, query, iterations, args, host, cloud, effects, idx, size,
                 volume_type, source_device, new_volume, snapshot_id_logged,
                 snapshot_id_checked, latest_block_device, date_started,
                 snapshot_tags>>

NextDevice == ApplyNextFree
SpecDevice == InitDevice /\ [][NextDevice]_vars

\* C12: for every set of device names on the host that match the naming
\* convention, get_next_free_block_device returns the alphabet successor of
\* the lexicographically greatest matching name, and fails instead of
\* returning a name when that name is the last letter or nothing matches.
MatchingNames == {f \in UNION {dev[i] : i \in DOMAIN dev} : MatchesXvd(f)}
LetterSuccessor(d) == ((d \div 10) + 1) * 10

C12_NextFreeIsSuccessorOfGreatest ==
  pc = "fn_done" =>
    IF MatchingNames = {} \/ Max(MatchingNames) \div 10 = 26
    THEN attach_device = Raises
    ELSE attach_device = LetterSuccessor(Max(MatchingNames))

\* ------------------------------------------------ statistics parser
MaxStatLines == 2

\* The lines rsync -a --stats prints on success (line 587 runs it without
\* -v, -i or -h): the statistics block of rsync 3.1 and later, with commas
\* in the numbers, the Number of files line of rsync 3.0, the blank line
\* and the two closing summary lines.
StatLines ==
  {
    << "N", "u", "m", "b", "e", "r", " ", "o", "f", " ", "f", "i", "l",
       "e", "s", ":", " ", "1", ",", "2", "3", "4", " ", "(", "r", "e",
       "g", ":", " ", "1", ",", "0", "0", "0", ",", " ", "d", "i", "r",
       ":", " ", "2", "3", "4", ")" >>,
    << "N", "u", "m", "b", "e", "r", " ", "o", "f", " ", "f", "i", "l",
       "e", "s", ":", " ", "1", "2", "3", "4" >>,
    << "N", "u", "m", "b", "e", "r", " ", "o", "f", " ", "c", "r", "e",
       "a", "t", "e", "d", " ", "f", "i", "l", "e", "s", ":", " ", "0" >>,
    << "N", "u", "m", "b", "e", "r", " ", "o", "f", " ", "d", "e", "l",
       "e", "t", "e", "d", " ", "f", "i", "l", "e", "s", ":", " ", "0" >>,
    << "N", "u", "m", "b", "e", "r", " ", "o", "f", " ", "r", "e", "g",
       "u", "l", "a", "r", " ", "f", "i", "l", "e", "s", " ", "t", "r",
       "a", "n", "s", "f", "e", "r", "r", "e", "d", ":", " ", "7" >>,
    << "T", "o", "t", "a", "l", " ", "f", "i", "l", "e", " ", "s", "i",
       "z", "e", ":", " ", "9", "9", " ", "b", "y", "t", "e", "s" >>,
    << "T", "o", "t", "a", "l", " ", "t", "r", "a", "n", "s", "f", "e",
       "r", "r", "e", "d", " ", "f", "i", "l", "e", " ", "s", "i", "z",
       "e", ":", " ", "1", ",", "2", "3", "4", " ", "b", "y", "t", "e",
       "s" >>,
    << "L", "i", "t", "e", "r", "a", "l", " ", "d", "a", "t", "a", ":",
       " ", "0", " ", "b", "y", "t", "e", "s" >>,
    << "M", "a", "t", "c", "h", "e", "d", " ", "d", "a", "t", "a", ":",
       " ", "1", ",", "2", "3", "4", " ", "b", "y", "t", "e", "s" >>,
    << "F", "i", "l", "e", " ", "l", "i", "s", "t", " ", "s", "i", "z",
       "e", ":", " ", "0" >>,
    << "F", "i", "l", "e", " ", "l", "i", "s", "t", " ", "g", "e", "n",
       "e", "r", "a", "t", "i", "o", "n", " ", "t", "i", "m", "e", ":",
       " ", "0", ".", "0", "0", "1", " ", "s", "e", "c", "o", "n", "d",
       "s" >>,
    << "F", "i", "l", "e", " ", "l", "i", "s", "t", " ", "t", "r", "a",
       "n", "s", "f", "e", "r", " ", "t", "i", "m", "e", ":", " ", "0",
       ".", "0", "0", "0", " ", "s", "e", "c", "o", "n", "d", "s" >>,
    << "T", "o", "t", "a", "l", " ", "b", "y", "t", "e", "s", " ", "s",
       "e", "n", "t", ":", " ", "1", ",", "2", "3", "4" >>,
    << "T", "o", "t", "a", "l", " ", "b", "y", "t", "e", "s", " ", "r",
       "e", "c", "e", "i", "v", "e", "d", ":", " ", "1", "2" >>,
    <<>>,
    << "s", "e", "n", "t", " ", "1", ",", "2", "3", "4", " ", "b", "y",
       "t", "e", "s", " ", " ", "r", "e", "c", "e", "i", "v", "e", "d",
       " ", "1", "2", " ", "b", "y", "t", "e", "s", " ", " ", "2", "7",
       "0", ".", "0", "0", " ", "b", "y", "t", "e", "s", "/", "s", "e",
       "c" >>,
    << "t", "o", "t", "a", "l", " ", "s", "i", "z", "e", " ", "i", "s",
       " ", "9", "9", " ", " ", "s", "p", "e", "e", "d", "u", "p", " ",
       "i", "s", " ", "0", ".", "7", "3" >> }

RECURSIVE JoinLines(_)
JoinLines(lines) ==
  IF lines = <<>> THEN <<>>
  ELSE IF Len(lines) = 1 THEN lines[1]
  ELSE lines[1] \o <<NewLine>> \o JoinLines(Tail(lines))

StatOutputs ==
  {JoinLines(lines) : lines \in UNION {[1..n -> StatLines] :
                                         n \in 0..MaxStatLines}}

InitStats ==
  /\ pc = "fn_stats"
  /\ dev = <<{}>>
  /\ MainIdle
  /\ rsync_output \in StatOutputs
  /\ stats = <<>>
  /\ QueryIdle

\* One call of capture_rsync_stats.
ApplyCaptureStats ==
  /\ pc = "fn_stats"
  /\ stats' = capture_rsync_stats(rsync_output)
  /\ IF CaptureRaises(rsync_output) THEN Goto("fn_raised")
     ELSE Goto("fn_done")
  /\ UNCHANGED <<rsync_output, query, iterations, args, host, cloud, locals,
                 effects>>

NextStats == ApplyCaptureStats
SpecStats == InitStats /\ [][NextStats]_vars

\* ------------------------------------------------ query-mongo-backups.py
MaxQuerySnapshots == 3
MaxLimit == 3

\* Character codes of '+', '.' and '0'.
PLUS == 43
DOT == 46
ZERO == 48

\* StartTime values: seconds and microseconds of a UTC datetime (the other
\* components are equal for all of them).
StartTimes == { [sec |-> 1, micro |-> 0],
                [sec |-> 1, micro |-> 5],
                [sec |-> 2, micro |-> 0] }

\* datetime.isoformat() as a string of character codes: the fraction is
\* omitted when the microseconds are zero, and the UTC offset follows.
isoformat(t) ==
  <<ZERO + t.sec>>
    \o (IF t.micro = 0 THEN <<>> ELSE <<DOT, ZERO + t.micro>>)
    \o <<PLUS, ZERO, ZERO>>

\* Python's ordering of str: a < b.
RECURSIVE StrLess(_, _)
StrLess(a, b) ==
  IF b = <<>> THEN FALSE
  ELSE IF a = <<>> THEN TRUE
  ELSE IF Head(a) # Head(b) THEN Head(a) < Head(b)
  ELSE StrLess(Tail(a), Tail(b))

\* tag['Key'].startswith('rsync_'), line 91.
RsyncPrefix == "rsync_"

HasRsyncPrefix(k) ==
  /\ Len(k) >= Len(RsyncPrefix)
  /\ SubSeq(k, 1, Len(RsyncPrefix)) = RsyncPrefix

Stats1 == << [Key |-> "rsync_number_of_files", Value |-> "1234"] >>
Stats2 == << [Key |-> "rsync_total_file_size", Value |-> "99"],
             [Key |-> "rsync_number_of_files", Value |-> "7"] >>

\* Tag lists of the snapshots the filter returns: written by a backup run
\* (Tags), or carrying fewer fields and keys unknown to the query.
TagLists == { Tags(1, 2, <<>>),
              Tags(2, 2, Stats1),
              Tags(2, 3, Stats2),
              << [Key |-> "MongoName", Value |-> mongo_name],
                 [Key |-> "MongoBackups", Value |-> "True"] >>,
              << [Key |-> "Owner", Value |-> "ops"],
                 [Key |-> "MongoBackups", Value |-> "True"],
                 [Key |-> "rsync", Value |-> "0"],
                 [Key |-> "rsync_literal_data", Value |-> "12"],
                 [Key |-> "rsync_number_of_files", Value |-> "5"] >>,
              << [Key |-> "Owner", Value |-> "ops"] >> }

SnapshotInputs ==
  UNION { [1..n -> [StartTime : StartTimes, Tags : TagLists]] :
          n \in 0..MaxQuerySnapshots }

\* One element of describe_snapshots()['Snapshots'].
SnapshotDict(i, in) ==
  [SnapshotId |-> i, StartTime |-> in.StartTime,
   Description |-> SnapshotName, Encrypted |-> TRUE, Progress |-> "100%",
   Tags |-> in.Tags]

tag_search_NoGuard(_item, _dict) ==
  LET found == SelectSeq(_dict, LAMBDA element : element.Key = _item)
  IN IF found # <<>> THEN found[1].Value ELSE <<"IndexError">>

\* tag_search, lines 12-18: the first matching value, or the empty list.
tag_search(_item, _dict) ==
  LET found == SelectSeq(_dict, LAMBDA element : element.Key = _item)
  IN IF found # <<>> THEN found[1].Value ELSE found

\* rsync_stats[tag['Key']] = tag['Value']: the last value of a key is kept.
LastValue(tags, k) ==
  LET found == SelectSeq(tags, LAMBDA element : element.Key = k)
  IN found[Len(found)].Value

FixedKeys == {"Description", "Encrypted", "Progress", "SnapshotId",
              "DateStarted", "DateFinished", "MongoName", "InstanceId"}

snapshot_data_DatesSwapped(snapshot) ==
  LET tags == snapshot.Tags
      rsync_stats == {tags[i].Key : i \in {j \in DOMAIN tags :
                                             HasRsyncPrefix(tags[j].Key)}}
  IN [k \in FixedKeys \cup rsync_stats |->
        CASE k = "Description" -> snapshot.Description
          [] k = "Encrypted" -> snapshot.Encrypted
          [] k = "Progress" -> snapshot.Progress
          [] k = "SnapshotId" -> snapshot.SnapshotId
          [] k = "DateStarted" -> tag_search("DateFinished", tags)
          [] k = "DateFinished" -> tag_search("DateStarted", tags)
          [] k \in {"MongoName", "InstanceId"} -> tag_search(k, tags)
          [] OTHER -> LastValue(tags, k)]

\* Lines 76-96: the record of one snapshot, {**snapshot_data, **rsync_stats}.
snapshot_data(snapshot) ==
  LET tags == snapshot.Tags
      rsync_stats == {tags[i].Key : i \in {j \in DOMAIN tags :
                                             HasRsyncPrefix(tags[j].Key)}}
  IN [k \in FixedKeys \cup rsync_stats |->
        CASE k = "Description" -> snapshot.Description
          [] k = "Encrypted" -> snapshot.Encrypted
          [] k = "Progress" -> snapshot.Progress
          [] k = "SnapshotId" -> snapshot.SnapshotId
          [] k \in {"DateStarted", "DateFinished", "MongoName", "InstanceId"}
               -> tag_search(k, tags)
          [] OTHER -> LastValue(tags, k)]

\* snapshots[human_readable_start_time] = od on a dict kept as a list of
\* <<key, value>> in insertion order.
DictPut(dct, k, v) ==
  IF \E i \in DOMAIN dct : dct[i][1] = k
  THEN [i \in DOMAIN dct |-> IF dct[i][1] = k THEN <<k, v>> ELSE dct[i]]
  ELSE Append(dct, <<k, v>>)

RECURSIVE BuildSnapshots(_, _, _)
BuildSnapshots(result, i, dct) ==
  IF i > Len(result) THEN dct
  ELSE BuildSnapshots(result, i + 1,
         DictPut(dct, isoformat(result[i].StartTime),
                 snapshot_data(result[i])))

RemoveAt(seq, i) == [j \in 1..(Len(seq) - 1) |->
                       IF j < i THEN seq[j] ELSE seq[j + 1]]

RECURSIVE SortedReverse_Ascending(_)
SortedReverse_Ascending(items) ==
  IF items = <<>> THEN <<>>
  ELSE LET m == CHOOSE i \in DOMAIN items :
                  \A j \in DOMAIN items :
                    j # i => StrLess(items[i][1], items[j][1])
       IN <<items[m]>> \o SortedReverse_Ascending(RemoveAt(items, m))

\* sorted(snapshots.items(), key=lambda t: t[0], reverse=True); the keys of
\* a dict are distinct.
RECURSIVE SortedReverse(_)
SortedReverse(items) ==
  IF items = <<>> THEN <<>>
  ELSE LET m == CHOOSE i \in DOMAIN items :
                  \A j \in DOMAIN items :
                    j # i => StrLess(items[j][1], items[i][1])
       IN <<items[m]>> \o SortedReverse(RemoveAt(items, m))

\* Lines 99-104: copy until the result holds limit entries.
RECURSIVE TakeLimit(_, _, _, _)
TakeLimit(items, i, lim, out) ==
  IF i > Len(items) THEN out
  ELSE IF Len(out) = lim THEN out
  ELSE TakeLimit(items, i + 1, lim, Append(out, items[i]))

all_snapshots(result, lim) ==
  TakeLimit(SortedReverse(BuildSnapshots(result, 1, <<>>)), 1, lim, <<>>)

InitQuery ==
  /\ pc = "idle"
  /\ dev = <<{}>>
  /\ MainIdle
  /\ StatsIdle
  /\ q_pc = "q_start"
  /\ \E in \in SnapshotInputs :
       q_snapshots = [i \in DOMAIN in |-> SnapshotDict(i, in[i])]
  /\ limit \in -1..MaxLimit
  /\ q_result = <<>>

\* main(), lines 109-120: build the report and print it; when
\* describe_snapshots (line 68) raises, nothing catches it and the program
\* ends with a traceback, nothing printed.
QueryAllSnapshots ==
  /\ q_pc = "q_start"
  /\ \/ /\ q_result' = all_snapshots(q_snapshots, limit)
        /\ q_pc' = "q_done"
     \/ /\ q_pc' = "q_crashed"
        /\ UNCHANGED q_result
  /\ UNCHANGED <<pc, exit_code, crash_cause, args, host, cloud, locals,
                 effects, iterations, capture, q_snapshots, limit>>

NextQuery == QueryAllSnapshots
SpecQuery == InitQuery /\ [][NextQuery]_vars

\* ------------------------------------------------ query properties
QueryDone == q_pc = "q_done"

\* The snapshot a result entry was decoded from.
SourceOf(i) == q_snapshots[q_result[i][2]["SnapshotId"]]

HasKey(tags, k) == \E i \in DOMAIN tags : tags[i].Key = k

IdentityKeys == {"InstanceId", "Name", "Description", "MongoName",
                 "MongoBackups", "DateStarted", "DateFinished",
                 "MongoBackupsVersion"}

DecodedIdentityKeys == {"InstanceId", "MongoName", "DateStarted",
                        "DateFinished"}

\* The tag list carries every field a backup run writes.
WrittenByBackup(tags) == \A k \in IdentityKeys : HasKey(tags, k)

RsyncPairsRecovered(od, tags) ==
  /\ \A i \in DOMAIN tags :
       HasRsyncPrefix(tags[i].Key) =>
         /\ tags[i].Key \in DOMAIN od
         /\ od[tags[i].Key] = tags[i].Value
  /\ \A k \in DOMAIN od : HasRsyncPrefix(k) => HasKey(tags, k)

\* Numeric order of the start timestamps.
TimeLess(a, b) == a.sec < b.sec \/ (a.sec = b.sec /\ a.micro < b.micro)

DistinctStartTimes ==
  \A i, j \in DOMAIN q_snapshots :
    i # j => q_snapshots[i].StartTime # q_snapshots[j].StartTime

Min(a, b) == IF a < b THEN a ELSE b

\* C17 (as stated): decoding the tags a backup run wrote recovers every
\* identity field (InstanceId, Name, Description, MongoName, MongoBackups,
\* DateStarted, DateFinished, MongoBackupsVersion) and every rsync_ pair.
C17_RoundTripAllFields ==
  QueryDone =>
    \A i \in DOMAIN q_result :
      LET od == q_result[i][2]
          tags == SourceOf(i).Tags
      IN WrittenByBackup(tags) =>
           /\ \A k \in IdentityKeys :
                k \in DOMAIN od /\ od[k] = TagValue(tags, k)
           /\ RsyncPairsRecovered(od, tags)

\* C17 (amended): decoding the tags a backup run wrote recovers InstanceId,
\* MongoName, DateStarted and DateFinished and every rsync_ pair, and nothing
\* else from the tags: Name, MongoBackups and MongoBackupsVersion are not in
\* the record, and Description is the snapshot's own description.
C17_RoundTripDecodedFields ==
  QueryDone =>
    \A i \in DOMAIN q_result :
      LET od == q_result[i][2]
          tags == SourceOf(i).Tags
      IN WrittenByBackup(tags) =>
           /\ \A k \in DecodedIdentityKeys : od[k] = TagValue(tags, k)
           /\ RsyncPairsRecovered(od, tags)
           /\ od["Description"] = SourceOf(i).Description
           /\ DOMAIN od \cap {"Name", "MongoBackups", "MongoBackupsVersion"}
                = {}

C17_Witness ==
  /\ QueryDone
  /\ \E i \in DOMAIN q_result :
       /\ WrittenByBackup(SourceOf(i).Tags)
       /\ "rsync_total_file_size" \in DOMAIN q_result[i][2]
       /\ q_result[i][2]["DateStarted"] # q_result[i][2]["DateFinished"]
  /\ \E i \in DOMAIN q_result :
       /\ WrittenByBackup(SourceOf(i).Tags)
       /\ DOMAIN q_result[i][2] = FixedKeys

\* C18: for n snapshots with distinct start timestamps and a limit >= 0 the
\* result holds exactly min(limit, n) records, those with the greatest start
\* timestamps, in descending timestamp order.
C18_LatestFirstUpToLimit ==
  (QueryDone /\ limit >= 0 /\ DistinctStartTimes) =>
    /\ Len(q_result) = Min(limit, Len(q_snapshots))
    /\ \A i, j \in DOMAIN q_result :
         i < j => TimeLess(SourceOf(j).StartTime, SourceOf(i).StartTime)
    /\ \A s \in DOMAIN q_snapshots :
         (\A i \in DOMAIN q_result : q_result[i][2]["SnapshotId"] # s) =>
           \A i \in DOMAIN q_result :
             TimeLess(q_snapshots[s].StartTime, SourceOf(i).StartTime)

C18_Witness ==
  /\ QueryDone
  /\ DistinctStartTimes
  /\ Len(q_snapshots) = 3
  /\ limit = 2
  /\ Len(q_result) = 2
  /\ q_snapshots[1].StartTime = [sec |-> 1, micro |-> 0]
  /\ q_snapshots[2].StartTime = [sec |-> 1, micro |-> 5]

\* C19: snapshots with equal start timestamps are all kept, none is dropped
\* or overwritten: every snapshot has its own record up to the limit, and
\* records of equal timestamp are ordered by snapshot id.
C19_TiesKept ==
  (QueryDone /\ limit >= 0) =>
    /\ Len(q_result) = Min(limit, Len(q_snapshots))
    /\ \A i, j \in DOMAIN q_result :
         (i < j /\ SourceOf(i).StartTime = SourceOf(j).StartTime) =>
           q_result[i][2]["SnapshotId"] < q_result[j][2]["SnapshotId"]

\* C20: decoding is total: for any subset of the expected keys, and with
\* unknown keys present, every decoded field that is missing from the tags is
\* the empty value, every present one is its tag's value, and keys that are
\* neither expected nor rsync_ statistics do not appear in the record.
C20_DecodingTotal ==
  QueryDone =>
    \A i \in DOMAIN q_result :
      LET od == q_result[i][2]
          tags == SourceOf(i).Tags
      IN /\ \A k \in DecodedIdentityKeys :
              IF HasKey(tags, k) THEN od[k] = TagValue(tags, k)
              ELSE od[k] = <<>>
         /\ DOMAIN od =
              FixedKeys \cup {k \in {tags[j].Key : j \in DOMAIN tags} :
                                HasRsyncPrefix(k)}

C20_Witness ==
  /\ QueryDone
  /\ \E i \in DOMAIN q_result :
       /\ \A k \in DecodedIdentityKeys : ~HasKey(SourceOf(i).Tags, k)
       /\ HasKey(SourceOf(i).Tags, "Owner")
       /\ DOMAIN q_result[i][2] = FixedKeys
       /\ q_result[i][2]["InstanceId"] = <<>>
  /\ \E i \in DOMAIN q_result :
       /\ HasKey(SourceOf(i).Tags, "MongoName")
       /\ ~HasKey(SourceOf(i).Tags, "DateStarted")

\* ------------------------------------------------ statistics properties
StatsApplied == pc \in {"fn_done", "fn_raised"}

OutputLines == Split(rsync_output)

Letters == SeqToSet(LowerLetters) \cup SeqToSet(UpperLetters)
Digits == {"0", "1", "2", "3", "4", "5", "6", "7", "8", "9"}

\* The key the specification gives a label: 'rsync_', then the label in
\* lower case with underscores for spaces.
KeyOfLabel(label) ==
  <<"r", "s", "y", "n", "c", "_">> \o
    [i \in DOMAIN label |->
       IF label[i] = " " THEN "_" ELSE Lower(label[i])]

\* '<Label>: <number>': a label of letters and spaces, a colon and a space,
\* and a number of digits, commas and dots; text after the number is allowed.
LabelledNumber(line) ==
  { c \in DOMAIN line :
      /\ c > 1
      /\ line[c] = ":"
      /\ \A i \in 1..(c - 1) : line[i] \in Letters \cup {" "}
      /\ c + 2 <= Len(line)
      /\ line[c + 1] = " "
      /\ line[c + 2] \in Digits }

RECURSIVE ClaimedEntries(_, _)
ClaimedEntries(lines, i) ==
  IF i > Len(lines) THEN <<>>
  ELSE LET line == lines[i]
           cs == LabelledNumber(line)
       IN (IF cs = {} THEN <<>>
           ELSE LET c == CHOOSE x \in cs : TRUE
                    e == RunEnd(line, c + 2, Digits \cup {",", "."})
                IN << [Key |-> KeyOfLabel(SubSeq(line, 1, c - 1)),
                       Value |-> SelectSeq(SubSeq(line, c + 2, e - 1),
                                           LAMBDA ch : ch # ",")] >>)
            \o ClaimedEntries(lines, i + 1)

\* C21: every output line of the copy tool of the shape '<Label>: <number>'
\* gives exactly one entry with key rsync_<label in lower case, underscores
\* for spaces> and the number without commas as value; every other line
\* gives no entry and no error.
C21_EveryLabelledLineParsed ==
  StatsApplied =>
    /\ pc = "fn_done"
    /\ stats = ClaimedEntries(OutputLines, 1)
    /\ \A i \in DOMAIN OutputLines :
         Cardinality(LabelledNumber(OutputLines[i])) <= 1

C21_Witness ==
  /\ pc = "fn_done"
  /\ Len(OutputLines) = 2
  /\ Len(stats) = 1
  /\ stats[1].Key = KeyOfLabel(<<"N", "u", "m", "b", "e", "r", " ", "o", "f",
                                 " ", "f", "i", "l", "e", "s">>)
  /\ stats[1].Value = <<"1", "2", "3", "4">>
  /\ \E i \in DOMAIN OutputLines :
       OutputLines[i] # <<>> /\ LabelledNumber(OutputLines[i]) = {}

\* ------------------------------------------------ log sink
\* The positions of the run whose only call is MongoBackups.log.
LogSteps == {"fresh_log", "log_wait_available", "log_available", "log_last",
             "log_next", "log_attach", "poll_log", "poll_attached",
             "log_mount", "log_lock", "log_lvcreate",
             "log_unlock", "log_mount_snap", "log_rsync", "log_snapshot",
             "log_detach", "log_detached", "log_delete", "log_complete",
             "log_tags"}

\* A step that only logs hands over to the step after it.
LogStepReturns == pc \in LogSteps => (pc' # "crashed" /\ exit_code' # 1)

\* C22: the log sink never influences control flow: whether or not a sink is
\* configured and whether its calls succeed or fail, a step that only logs
\* leaves the exit code alone and hands over to the same next step, so the
\* operations and the exit code of the run do not depend on the sink.
C22_LogSinkNeverEndsRun ==
  [][LogStepReturns]_vars

\* ------------------------------------------------ destination size
MaxLvs == 2
MaxLvQuarters == 9

\* The logical volumes of the volume group, the one named by --lv-name
\* first, each with its size in quarters of a GiB.
VolumeGroups ==
  UNION {[1..n -> 1..MaxLvQuarters] : n \in 1..MaxLvs}

InitSize ==
  /\ pc = "fn_size"
  /\ dev = <<{}>>
  /\ exit_code = -1
  /\ crash_cause = "none"
  /\ action = "backup"
  /\ volumes = <<>>
  /\ seed_from_last_snapshot = FALSE
  /\ mongo_lock = FALSE
  /\ log_group_name = FALSE
  /\ wait_time = 0
  /\ lv_sizes \in VolumeGroups
  /\ snapshots = <<>>
  /\ dev_changes = 0
  /\ snap_changes = 0
  /\ kernel_pending = None
  /\ idx = 0
  /\ size = 0
  /\ volume_type = "none"
  /\ source_device = None
  /\ new_volume = None
  /\ dest_state = "none"
  /\ snapshot_id_logged = None
  /\ snapshot_id_checked = None
  /\ last_block_device = None
  /\ attach_device = None
  /\ latest_block_device = Unbound
  /\ locked = FALSE
  /\ lvsnap = FALSE
  /\ ops = <<>>
  /\ now = 1
  /\ date_started = 0
  /\ snapshot_tags = <<>>
  /\ tool_failures = 0
  /\ iterations = 0
  /\ StatsIdle
  /\ QueryIdle

\* Line 429: size = mongo_backups.logical_volume['lvsize'].
ApplySize ==
  /\ pc = "fn_size"
  /\ size' = logical_volume(lv_sizes)
  /\ Goto("fn_done")
  /\ UNCHANGED <<capture, query, iterations, args, host, cloud, effects, idx,
                 volume_type, source_device, new_volume, snapshot_id_logged,
                 snapshot_id_checked, last_block_device, attach_device,
                 latest_block_device, date_started, snapshot_tags>>

NextSize == ApplySize
SpecSize == InitSize /\ [][NextSize]_vars

\* C23: the size requested for the destination volume is the smallest whole
\* number of gigabytes that holds the source logical volume, whatever other
\* logical volumes the group contains: size * 2^30 >= lv_bytes and
\* (size - 1) * 2^30 < lv_bytes.
C23_SmallestWholeGigabytes ==
  pc = "fn_done" =>
    /\ size * GiB >= lv_sizes[1]
    /\ (size - 1) * GiB < lv_sizes[1]

\* ------------------------------------------------ formatted device
\* C24: the device that is formatted and mounted read-write is the device
\* name at which the destination volume was attached, whatever devices appear
\* on or disappear from the host between the baseline scan, the next-free
\* computation, the attach request and the confirmation poll.
C24_FormatsAttachDevice ==
  \A i \in DOMAIN ops :
    ops[i].op \in {"mkfs", "mount_rw"} => ops[i].dev = attach_device

\* ------------------------------------------------ seed lookup
\* C25: in seed mode the snapshot id that passed the existence check is the
\* one the destination volume is created from, and, whatever snapshots others
\* create or delete between the log, check and create steps, create-volume is
\* never called with neither a snapshot id nor a size.
C25_SeedLookupConsistent ==
  \A i \in OpIdx("create_volume") :
    /\ ~(ops[i].snap = None /\ ops[i].size = None)
    /\ seed_from_last_snapshot => ops[i].snap = snapshot_id_checked
====
